---- MODULE Spec2Model ----
(***************************************************************************)
(* Model of MySQLExporter.export_table (src/mysql_export_tool.py): the     *)
(* resumable, size-bounded export of one table to <table>_export_<i>.sql   *)
(* files with the checkpoint file <table>_export_progress.json.            *)
(*                                                                         *)
(* A table row is identified by its primary-key value 1..NumRows; size[k]  *)
(* is the byte length of the INSERT record generated for row k.  An output *)
(* file is the sequence of what was written to it: Header, Trailer, or the *)
(* primary-key value of a record.  The program constants max_file_size,    *)
(* batch_size and the 1000-row interval are scaled down so that rotation,  *)
(* batching and periodic saves all happen within a few rows.               *)
(***************************************************************************)
EXTENDS Integers, Sequences, FiniteSets, TLC

\* ---- bounds of the model
NumRows == 3
MaxRuns == 2
MaxLen == 4

\* ---- program constants (scaled)
max_file_size == 3
batch_size == 2
CheckInterval == 2

\* ---- encodings
None == 0
Header == 0
Trailer == -1

MaxFiles == 1 + (MaxRuns + 1) * NumRows

VARIABLES
    size,                     \* table: record byte length of each row
    primary_key,              \* table: TRUE iff DESCRIBE reports a PRI column
    pk_last,                  \* table: the PRI column is the last column
    files,                    \* disk: content of <table>_export_<i>.sql
    ckpt,                     \* disk: <table>_export_progress.json
    pc,                       \* position inside export_table ("idle": no run)
    resume,                   \* argument of the current run
    exclude_pk,               \* argument: primary key is in exclude_columns
    progress,                 \* the progress dict
    current_file_size,        \* local of export_table
    last_primary_key_value,   \* local of export_table
    cursor,                   \* result rows not yet fetched
    rows,                     \* rows of the fetched batch not yet processed
    result,                   \* how the run ended
    cause,                    \* where the run ended
    runs,                     \* number of runs started
    run_limit,                \* number of runs a behaviour may start
    saved,                    \* history: arguments of save_progress, this run
    loaded,                   \* history: progress at the start of this run
    loadedKind,               \* history: what the run found as checkpoint
    wrote,                    \* history: rows written by this run
    value,                    \* a textual column value of a row
    literal                   \* the SQL literal generated for it (<<>>: not yet)

vars == <<size, primary_key, pk_last, files, ckpt, pc, resume, exclude_pk,
          progress, current_file_size, last_primary_key_value, cursor, rows,
          result, cause, runs, run_limit, saved, loaded, loadedKind, wrote,
          value, literal>>

table == <<size, primary_key, pk_last, run_limit, value, literal>>
disk == <<files, ckpt>>
args == <<resume, exclude_pk>>
locals == <<progress, current_file_size, last_primary_key_value, cursor, rows>>
hist == <<saved, loaded, loadedKind, wrote>>

\* ---- helpers
RecSizes == {1, 2}

Fresh ==
    [file_index |-> 1, processed_rows |-> 0,
     last_primary_key |-> None, current_file_size |-> 0]

Absent == [kind |-> "absent", data |-> Fresh]
Valid(p) == [kind |-> "valid", data |-> p]
Corrupt(k) == [kind |-> k, data |-> Fresh]

RECURSIVE Range(_, _)
Range(a, b) == IF a > b THEN <<>> ELSE <<a>> \o Range(a + 1, b)

Take(s, n) == SubSeq(s, 1, IF n < Len(s) THEN n ELSE Len(s))
Drop(s, n) == SubSeq(s, (IF n < Len(s) THEN n ELSE Len(s)) + 1, Len(s))

IsRecord(x) == x >= 1
Records(s) == SelectSeq(s, IsRecord)

RECURSIVE Bytes(_)
Bytes(s) == IF s = <<>> THEN 0
            ELSE (IF IsRecord(Head(s)) THEN size[Head(s)] ELSE 0) + Bytes(Tail(s))

\* load_progress: the persisted dict when the file parses to one ("valid"; or
\* "missing": the dict {}, which has none of the fields and is carried as kind
\* with a placeholder for data), else the fresh dict ("absent"; "garbage":
\* json.load raises)
load_progress(c) ==
    IF c.kind \in {"valid", "missing"} THEN c.data ELSE Fresh

\* a save_progress that loses the row count (contrast for the lifecycle property)
save_progress_DropsCount(old, p, sv) ==
    IF sv = "ok" THEN Valid([p EXCEPT !.processed_rows = 0]) ELSE old

\* save_progress under the outcome sv of its file operations: written; open()
\* raised (logged, file untouched); the process died after open() truncated
save_progress(old, p, sv) ==
    CASE sv = "ok" -> Valid(p)
      [] sv = "openfail" -> old
      [] sv = "crash" -> Corrupt("garbage")

SaveOutcomes == {"ok", "openfail", "crash"}

\* a query that skips the rows already counted (contrast for the resume
\* without a primary key)
Query_SkipsCounted(p) == Range(p.processed_rows + 1, NumRows)

\* whether base_query gets the WHERE clause (line 203) and the ORDER BY
\* clause (line 206)
HasWhere(p) == primary_key /\ p.last_primary_key # None
HasOrderBy == primary_key

\* base_query: the rows the cursor will yield
Query(p) ==
    IF HasWhere(p)
    THEN Range(p.last_primary_key + 1, NumRows)
    ELSE Range(1, NumRows)

pk_in_columns == primary_key /\ ~exclude_pk

InitWith(limit) ==
    /\ run_limit = limit
    /\ size \in [1..NumRows -> RecSizes]
    /\ primary_key \in BOOLEAN
    /\ pk_last \in BOOLEAN
    /\ (~primary_key => ~pk_last)
    /\ files = [i \in 1..MaxFiles |-> <<>>]
    /\ ckpt = Absent
    /\ pc = "idle"
    /\ resume = FALSE
    /\ exclude_pk = FALSE
    /\ progress = Fresh
    /\ current_file_size = 0
    /\ last_primary_key_value = None
    /\ cursor = <<>>
    /\ rows = <<>>
    /\ result = "none"
    /\ cause = "none"
    /\ runs = 0
    /\ saved = <<>>
    /\ loaded = Fresh
    /\ loadedKind = "unread"
    /\ wrote = <<>>
    /\ value = <<>>
    /\ literal = <<>>

Init == InitWith(MaxRuns)

\* export_table is left with r = "true"/"false" by a return or with "raised" by
\* an uncaught exception; c names the place, p is the progress dict at that
\* moment.  The other locals are gone with the frame.
Return(r, c, p) ==
    /\ pc' = "returned"
    /\ result' = r
    /\ cause' = c
    /\ progress' = p
    /\ current_file_size' = 0
    /\ last_primary_key_value' = None
    /\ cursor' = <<>>
    /\ rows' = <<>>
    /\ saved' = <<>>
    /\ loaded' = Fresh
    /\ loadedKind' = "unread"
    /\ wrote' = <<>>

\* the process is gone: nothing of the run survives but the disk
ProcessEnds ==
    /\ pc' = "idle"
    /\ result' = "none"
    /\ cause' = "none"
    /\ resume' = FALSE
    /\ exclude_pk' = FALSE
    /\ progress' = Fresh
    /\ current_file_size' = 0
    /\ last_primary_key_value' = None
    /\ cursor' = <<>>
    /\ rows' = <<>>
    /\ saved' = <<>>
    /\ loaded' = Fresh
    /\ loadedKind' = "unread"
    /\ wrote' = <<>>

\* save_progress(table, p) is called and returns (sv: open() worked or raised)
SaveCall(p, sv) ==
    /\ sv \in {"ok", "openfail"}
    /\ ckpt' = save_progress(ckpt, p, sv)

\* save_progress(table, p) is called and the process dies inside it
SaveCrash(p) ==
    /\ ckpt' = save_progress(ckpt, p, "crash")
    /\ ProcessEnds
    /\ UNCHANGED <<table, runs>>

\* save_progress(table, p); return False -- from the except clause (c =
\* "exception") or after a failed disk check (c = "guard"); fs is the disk's
\* output files at that moment
SaveAndFail(p, fs, sv, c) ==
    /\ files' = fs
    /\ IF sv = "crash"
       THEN SaveCrash(p)
       ELSE /\ SaveCall(p, sv)
            /\ Return("false", c, p)
            /\ UNCHANGED <<table, args, runs>>

\* export_table, Initializing: disk check, table info, progress, row query
Initialize(r, excl, pre) ==
    /\ pc = "idle"
    /\ runs < run_limit
    /\ (excl => primary_key)
    /\ runs' = runs + 1
    /\ resume' = r
    /\ exclude_pk' = excl
    /\ IF pre # "ok"
       THEN Return("false", "init", Fresh)
       ELSE IF r /\ ckpt.kind = "missing" /\ primary_key
       THEN \* progress['last_primary_key'] raises KeyError outside the try
            Return("raised", "load", load_progress(ckpt))
       ELSE /\ loadedKind' = IF r THEN ckpt.kind ELSE "unread"
            /\ loaded' = IF r THEN load_progress(ckpt) ELSE Fresh
            /\ progress' = loaded'
            /\ result' = "running"
            /\ cause' = "none"
            /\ pc' = "open"
            /\ cursor' = Query(loaded')
            /\ UNCHANGED <<current_file_size, last_primary_key_value, rows,
                           saved, wrote>>
    /\ UNCHANGED <<table, disk>>

\* the file open(output_file, mode) yields: kept in append mode, else emptied
Opened(fs, p, r) == IF r /\ p.file_index = 1 THEN fs[p.file_index] ELSE <<>>

\* whether the header of the first file is written (line 221)
WritesHeader(p, r) == ~r \/ p.processed_rows = 0

\* cursor.execute, open(output_file, mode), the header of the first file
OpenOutput(io, sv) ==
    LET fi == progress.file_index
        opened == Opened(files, progress, resume)
    IN
    /\ pc = "open"
    /\ CASE loadedKind = "missing" ->
              \* progress is {}: progress['file_index'] raises KeyError inside
              \* the try, and the except clause saves {} again
              /\ io = "ok"
              /\ files' = files
              /\ IF sv = "crash"
                 THEN SaveCrash(progress)
                 ELSE /\ ckpt' = ckpt
                      /\ Return("false", "exception", progress)
                      /\ UNCHANGED <<table, args, runs>>
         [] io = "ok" ->
              /\ sv = "ok"
              /\ files' = [files EXCEPT ![fi] =
                              IF WritesHeader(progress, resume)
                              THEN Append(opened, Header) ELSE opened]
              /\ current_file_size' = progress.current_file_size
              /\ last_primary_key_value' = progress.last_primary_key
              /\ pc' = "fetch"
              /\ UNCHANGED <<table, args, runs, hist>>
              /\ UNCHANGED <<ckpt, progress, cursor, rows, result, cause>>
         [] io = "queryfail" ->
              SaveAndFail(progress, files, sv, "exception")
         [] io = "hdrfail" ->
              /\ WritesHeader(progress, resume)
              /\ SaveAndFail(progress, [files EXCEPT ![fi] = opened], sv, "exception")

\* rows = cursor.fetchmany(self.batch_size); if not rows: break
Fetch(io, sv) ==
    /\ pc = "fetch"
    /\ IF io = "ok"
       THEN /\ sv = "ok"
            /\ rows' = Take(cursor, batch_size)
            /\ cursor' = Drop(cursor, batch_size)
            /\ pc' = IF cursor = <<>> THEN "final" ELSE "row"
            /\ UNCHANGED <<table, args, runs, hist>>
            /\ UNCHANGED <<disk, progress, current_file_size, last_primary_key_value,
                           result, cause>>
       ELSE SaveAndFail(progress, files, sv, "exception")

\* a disk check before every row (contrast for the disk-guard property)
CheckDue_Always(p) == TRUE

\* the disk check of the row loop is due before the next row (line 240)
CheckDue(p) == p.processed_rows % CheckInterval = 0

\* the periodic check_disk_space of the row loop reports too little space
DiskGuardTrip(sv) ==
    /\ pc = "row"
    /\ CheckDue(progress)
    /\ SaveAndFail(progress, files, sv, "guard")

\* the value lines 276-279 leave in last_primary_key_value for a written row
UpdatedPrimaryKey(row) ==
    IF ~primary_key THEN last_primary_key_value
    ELSE IF pk_in_columns THEN row
    ELSE IF ~pk_last THEN None
    ELSE last_primary_key_value

\* rotation decided after the overflow, and one byte too early (contrasts for
\* the rotation and the completeness properties)
MustRotate_Late(cfs, sz) == cfs >= max_file_size
MustRotate_Early(cfs, sz) == cfs + sz >= max_file_size

\* the rotation decision of line 252
MustRotate(cfs, sz) == cfs + sz > max_file_size

\* a rotation that restarts the row count (contrast for monotonicity)
Rotated_Recounts(p) ==
    [p EXCEPT !.file_index = @ + 1, !.current_file_size = 0, !.processed_rows = 0]

\* the progress dict after the rotation of lines 257-258
Rotated(p) == [p EXCEPT !.file_index = @ + 1, !.current_file_size = 0]

\* the progress dict after lines 272-273
Counted(p, cfs) == [p EXCEPT !.processed_rows = @ + 1, !.current_file_size = cfs]

\* whether the periodic save is due after the row (line 282)
SaveDue(p) == p.processed_rows % CheckInterval = 0

\* one iteration of "for row in rows" whose disk check (if any) passes
WriteRow(io, sv) ==
    LET row == Head(rows)
        sz == size[row]
        fi == progress.file_index
        rotate == MustRotate(current_file_size, sz)
        closedFiles == [files EXCEPT ![fi] = Append(@, Trailer)]
        pB == IF rotate THEN Rotated(progress) ELSE progress
        fB == IF rotate THEN [closedFiles EXCEPT ![fi + 1] = <<Header>>] ELSE files
        cfs == (IF rotate THEN 0 ELSE current_file_size) + sz
        p1 == Counted(pB, cfs)
        lpk == UpdatedPrimaryKey(row)
        p2 == [p1 EXCEPT !.last_primary_key = lpk]
        fW == [fB EXCEPT ![pB.file_index] = Append(@, row)]
    IN
    /\ pc = "row"
    /\ CASE io = "rotfail" ->
              /\ rotate
              /\ SaveAndFail(pB, closedFiles, sv, "exception")
         [] io = "writefail" ->
              SaveAndFail(pB, fB, sv, "exception")
         [] io = "ok" ->
              /\ files' = fW
              /\ IF SaveDue(p1) /\ sv = "crash"
                 THEN SaveCrash(p2)
                 ELSE /\ IF SaveDue(p1)
                         THEN /\ progress' = p2
                              /\ SaveCall(p2, sv)
                              /\ saved' = Append(saved, [args |-> p2, outcome |-> sv])
                         ELSE /\ sv = "ok"
                              /\ progress' = p1
                              /\ UNCHANGED <<ckpt, saved>>
                      /\ wrote' = Append(wrote, row)
                      /\ current_file_size' = cfs
                      /\ last_primary_key_value' = lpk
                      /\ rows' = Tail(rows)
                      /\ pc' = IF Tail(rows) = <<>> THEN "fetch" ELSE "row"
                      /\ UNCHANGED <<table, args, runs, loaded, loadedKind>>
                      /\ UNCHANGED <<cursor, result, cause>>

\* the final trailer, cursor.close(), os.remove(progress_file), return True
Finalize(io, sv) ==
    LET fi == progress.file_index IN
    /\ pc = "final"
    /\ IF io = "ok"
       THEN /\ sv = "ok"
            /\ files' = [files EXCEPT ![fi] = Append(@, Trailer)]
            /\ ckpt' = Absent
            /\ Return("true", "completed", progress)
            /\ UNCHANGED <<table, args, runs>>
       ELSE SaveAndFail(progress, files, sv, "exception")

\* the process is killed between two steps of a run
Kill ==
    /\ pc \in {"open", "fetch", "row", "final"}
    /\ ProcessEnds
    /\ UNCHANGED <<table, disk, runs>>

\* the process ends after export_table has returned (main, lines 344-352)
Exit ==
    /\ pc = "returned"
    /\ ProcessEnds
    /\ UNCHANGED <<table, disk, runs>>

\* between two runs the checkpoint file is replaced from outside: it still
\* parses to a dict, which has none of the fields ({})
CorruptCheckpoint ==
    /\ pc = "idle"
    /\ runs < run_limit
    /\ ckpt.kind = "valid"
    /\ ckpt' = Corrupt("missing")
    /\ UNCHANGED <<table, files, pc, args, locals, result, cause, runs, hist>>

Next ==
    \/ \E r \in BOOLEAN, excl \in BOOLEAN, pre \in {"ok", "nodisk", "noinfo"} :
          Initialize(r, excl, pre)
    \/ \E io \in {"ok", "queryfail", "hdrfail"}, sv \in SaveOutcomes :
          OpenOutput(io, sv)
    \/ \E io \in {"ok", "fetchfail"}, sv \in SaveOutcomes : Fetch(io, sv)
    \/ \E sv \in SaveOutcomes : DiskGuardTrip(sv)
    \/ \E io \in {"ok", "rotfail", "writefail"}, sv \in SaveOutcomes :
          WriteRow(io, sv)
    \/ \E io \in {"ok", "trailerfail"}, sv \in SaveOutcomes : Finalize(io, sv)
    \/ Kill
    \/ Exit
    \/ CorruptCheckpoint

Spec == Init /\ [][Next]_vars

\* the same program, observed for one run more
InitLong == InitWith(MaxRuns + 1)
SpecLong == InitLong /\ [][Next]_vars

\* ---- generate_insert_statement on a textual value
\*
\* A string is a sequence of characters; the characters that matter are the
\* backslash, the single quote, newline and carriage return, and the letters
\* n and r stand for the ordinary ones.
BS == "backslash"
Q == "quote"
NL == "newline"
CR == "return"
Alphabet == {BS, Q, NL, CR, "n", "r"}

RECURSIVE Replace(_, _, _)
\* str.replace(c, r) for a one-character c
Replace(s, c, r) ==
    IF s = <<>> THEN <<>>
    ELSE (IF Head(s) = c THEN r ELSE <<Head(s)>>) \o Replace(Tail(s), c, r)

\* the other order of the first two replacements (contrast for the round trip)
escaped_value_QuoteFirst(v) ==
    Replace(Replace(Replace(Replace(v, Q, <<BS, Q>>), BS, <<BS, BS>>),
                    NL, <<BS, "n">>), CR, <<BS, "r">>)

\* line 152: the four replacements, backslash first
escaped_value(v) ==
    Replace(Replace(Replace(Replace(v, BS, <<BS, BS>>), Q, <<BS, Q>>),
                    NL, <<BS, "n">>), CR, <<BS, "r">>)

\* line 153: the quoted literal of a str value
Quoted(v) == <<Q>> \o escaped_value(v) \o <<Q>>

RECURSIVE Strings(_)
\* the strings over Alphabet of length n
Strings(n) ==
    IF n = 0 THEN {<<>>}
    ELSE {<<c>> \o t : c \in Alphabet, t \in Strings(n - 1)}

InitText ==
    /\ value \in UNION {Strings(n) : n \in 0..MaxLen}
    /\ literal = <<>>
    /\ run_limit = 0
    /\ size = [k \in 1..NumRows |-> 1]
    /\ primary_key = TRUE
    /\ pk_last = FALSE
    /\ files = [i \in 1..MaxFiles |-> <<>>]
    /\ ckpt = Absent
    /\ pc = "idle"
    /\ resume = FALSE
    /\ exclude_pk = FALSE
    /\ progress = Fresh
    /\ current_file_size = 0
    /\ last_primary_key_value = None
    /\ cursor = <<>>
    /\ rows = <<>>
    /\ result = "none"
    /\ cause = "none"
    /\ runs = 0
    /\ saved = <<>>
    /\ loaded = Fresh
    /\ loadedKind = "unread"
    /\ wrote = <<>>

\* generate_insert_statement reaches the value and appends its literal
GenerateInsert ==
    /\ literal = <<>>
    /\ literal' = Quoted(value)
    /\ UNCHANGED <<size, primary_key, pk_last, run_limit, value, disk, pc, args,
                   locals, result, cause, runs, hist>>

NextText == GenerateInsert

SpecText == InitText /\ [][NextText]_vars

\* ---- vocabulary of the properties

RECURSIVE RecordsUpTo(_, _)
\* the records of files 1..n, in file order
RecordsUpTo(fs, n) ==
    IF n = 0 THEN <<>> ELSE RecordsUpTo(fs, n - 1) \o Records(fs[n])

Count(s, k) == Cardinality({i \in 1..Len(s) : s[i] = k})

\* every row of the table is in the output files fs exactly once
EachRowOnce(fs) ==
    \A k \in 1..NumRows : Count(RecordsUpTo(fs, MaxFiles), k) = 1

RECURSIVE MaxRecord(_)
\* the size of the largest record of a file (0 when it has none)
MaxRecord(s) ==
    IF s = <<>> THEN 0
    ELSE LET m == MaxRecord(Tail(s))
             h == IF IsRecord(Head(s)) THEN size[Head(s)] ELSE 0
         IN IF h > m THEN h ELSE m

Last(s) == s[Len(s)]

\* export_table has returned r
Returned(r) == pc = "returned" /\ result = r

\* this step is the one in which a streaming run returns r
Returns(r) == pc \in {"open", "fetch", "row", "final"} /\ pc' = "returned" /\ result' = r

\* this step is a return after the periodic disk check failed
GuardTrips == pc = "row" /\ pc' = "returned" /\ cause' = "guard"

\* the checkpoint the run last handed to save_progress, or started from
LastCheckpoint == IF saved = <<>> THEN loaded ELSE Last(saved).args

\* C1 (Idempotent resume): when a run started on an empty disk was interrupted
\* and left a checkpoint with lastPrimaryKey = K, and the primary key is an
\* exported column, the following resumed run writes only rows with primary
\* key > K and, once it completes, the output files hold every row of the
\* table exactly once.
C1_IdempotentResume ==
    [][(/\ Returns("true")
        /\ runs = 2
        /\ resume
        /\ loadedKind = "valid"
        /\ loaded.last_primary_key # None
        /\ pk_in_columns)
       => /\ \A i \in 1..Len(wrote) : wrote[i] > loaded.last_primary_key
          /\ EachRowOnce(files')
      ]_vars

\* C2 (Monotonic checkpoint): over the save_progress calls of one run (the
\* periodic saves, the save after a failed disk check, the save of the except
\* clause) the saved processed_rows and file_index never decrease, and the
\* first save of a run is not below the checkpoint the run started from.
C2_MonotonicCheckpoint ==
    [][/\ Len(saved') = Len(saved) + 1 =>
             /\ LastCheckpoint.processed_rows <= Last(saved').args.processed_rows
             /\ LastCheckpoint.file_index <= Last(saved').args.file_index
       /\ Returns("false") =>
             /\ LastCheckpoint.processed_rows <= progress'.processed_rows
             /\ LastCheckpoint.file_index <= progress'.file_index
      ]_vars

\* C2 witness: a resumed run whose second save advanced both fields
C2_Witness ==
    /\ resume
    /\ loadedKind = "valid"
    /\ loaded.processed_rows > 0
    /\ Len(saved) >= 2
    /\ saved[1].args.processed_rows < saved[2].args.processed_rows
    /\ saved[1].args.file_index < saved[2].args.file_index

\* C3 (Size bound): in every reachable state, of fresh and of resumed runs
\* and after any interruption, the record bytes of each output file are at
\* most max_file_size plus the size of one of its records.
C3_SizeBound ==
    \A i \in 1..MaxFiles :
       Bytes(files[i]) <= max_file_size + MaxRecord(files[i])

\* the run has failed inside the try block (streaming had started)
FailedStreaming == Returned("false") /\ cause \in {"guard", "exception"}

C6_AtomicSave ==
    [][pc # "idle" =>
          \/ ckpt' = ckpt
          \/ ckpt'.kind = "valid"
          \/ ckpt' = Absent /\ result' = "true"
      ]_vars

\* C7 (Checkpoint read degradation): whatever the checkpoint file holds, a run
\* with resume=True is not ended by reading it: it goes on to streaming with
\* the persisted checkpoint or with the fresh one.
C7_ReadDegradation ==
    [][(pc = "idle" /\ pc' # "idle" /\ resume' /\ cause' # "init") =>
          /\ result' # "raised"
          /\ pc' = "open"
          /\ (progress' = Fresh \/ ckpt = Valid(progress'))
      ]_vars

\* C8 (Clean restart): a completed run with resume=False has used nothing of an
\* earlier checkpoint, and the output files hold exactly the rows it wrote: no
\* file holds rows of an earlier export.
C8_CleanRestart ==
    [][(Returns("true") /\ ~resume) =>
          /\ loaded = Fresh
          /\ RecordsUpTo(files', MaxFiles) = wrote
      ]_vars

\* C9 (Pre-emptive rotation): a record is appended to the current file iff it
\* fits (current_file_size + size <= max_file_size); otherwise the current file
\* gets its trailer, file_index grows by one, the size counter restarts at 0,
\* and the record follows the header of the new file.  In a fresh run the size
\* counter is the record bytes of the current file, so each closed file holds
\* the longest run of consecutive records that fits.
C9_PreemptiveRotation ==
    [][Len(wrote') = Len(wrote) + 1 =>
          LET r == Last(wrote')
              fi == progress.file_index
          IN /\ (~resume => current_file_size = Bytes(files[fi]))
             /\ IF current_file_size + size[r] <= max_file_size
                THEN /\ progress'.file_index = fi
                     /\ files' = [files EXCEPT ![fi] = Append(@, r)]
                     /\ current_file_size' = current_file_size + size[r]
                ELSE /\ progress'.file_index = fi + 1
                     /\ files' = [files EXCEPT ![fi] = Append(@, Trailer),
                                               ![fi + 1] = <<Header, r>>]
                     /\ current_file_size' = size[r]
             /\ progress'.current_file_size = current_file_size'
      ]_vars

\* C9 witness: the third record was the first to overflow file 1
C9_Witness ==
    /\ ~resume
    /\ wrote = <<1, 2, 3>>
    /\ files[1] = <<Header, 1, 2, Trailer>>
    /\ files[2] = <<Header, 3>>
    /\ progress.file_index = 2

\* C10 (Complete fresh export): a run with resume=False that completes on a
\* table with a primary key has written every row once, in ascending key order
\* across files 1..file_index, each of which starts with a header and ends
\* with a trailer; when all records fit max_file_size there is one file:
\* header, the records, trailer.
C10_CompleteFreshExport ==
    [][(Returns("true") /\ ~resume /\ primary_key) =>
          /\ wrote = Range(1, NumRows)
          /\ RecordsUpTo(files', progress.file_index) = Range(1, NumRows)
          /\ \A i \in 1..progress.file_index :
                /\ Head(files'[i]) = Header
                /\ Last(files'[i]) = Trailer
          /\ Bytes(Range(1, NumRows)) <= max_file_size =>
                /\ progress.file_index = 1
                /\ files'[1] = <<Header>> \o Range(1, NumRows) \o <<Trailer>>
      ]_vars

\* C10 witness: a completed fresh export that fitted one file
C10_Witness ==
    /\ Returned("true")
    /\ ~resume
    /\ primary_key
    /\ progress.file_index = 1
    /\ files[1] = <<Header>> \o Range(1, NumRows) \o <<Trailer>>
\* the inverse of the escaping rules, read left to right: backslash-backslash
\* is a backslash, backslash-quote a quote, backslash-n a newline, backslash-r
\* a carriage return; anything else stands for itself
RECURSIVE Unescape(_)
Unescape(s) ==
    IF s = <<>> THEN <<>>
    ELSE IF Head(s) = BS /\ Len(s) >= 2
    THEN LET c == s[2]
             rest == Unescape(SubSeq(s, 3, Len(s)))
         IN CASE c = BS -> <<BS>> \o rest
              [] c = Q -> <<Q>> \o rest
              [] c = "n" -> <<NL>> \o rest
              [] c = "r" -> <<CR>> \o rest
              [] OTHER -> <<BS, c>> \o rest
    ELSE <<Head(s)>> \o Unescape(Tail(s))

RECURSIVE NothingRaw(_)
\* read left to right, s has no newline, no carriage return and no quote
\* outside an escape pair, and no escape pair is cut off
NothingRaw(s) ==
    IF s = <<>> THEN TRUE
    ELSE IF Head(s) = BS THEN Len(s) >= 2 /\ NothingRaw(SubSeq(s, 3, Len(s)))
    ELSE Head(s) \notin {Q, NL, CR} /\ NothingRaw(Tail(s))

\* what stands between the enclosing quotes of a literal
Inside(l) == SubSeq(l, 2, Len(l) - 1)

\* C11 (Escaping round-trip): for every textual value over backslash, quote,
\* newline, carriage return and ordinary characters, the literal that
\* generate_insert_statement emits is enclosed in quotes, un-escapes to the
\* value exactly, and has no raw newline, carriage return or unescaped quote
\* between the enclosing quotes.
C11_EscapingRoundTrip ==
    literal # <<>> =>
       /\ Head(literal) = Q
       /\ literal[Len(literal)] = Q
       /\ Unescape(Inside(literal)) = value
       /\ NothingRaw(Inside(literal))

\* C11 witness: a value with all four special characters has its literal
C11_Witness ==
    /\ value = <<BS, Q, NL, CR>>
    /\ literal = <<Q, BS, BS, BS, Q, BS, "n", BS, "r", Q>>
\* a file with exactly one header, before its records, and exactly one
\* trailer, after them
Framed(f) ==
    /\ Len(f) >= 2
    /\ f[1] = Header
    /\ f[Len(f)] = Trailer
    /\ \A j \in 2..(Len(f) - 1) : IsRecord(f[j])

\* C12 (File framing): when an export completes, in one run or through
\* interrupted and resumed runs, each output file 1..file_index has exactly one
\* header before all its records and exactly one trailer after them.
C12_FileFraming ==
    [][Returns("true") =>
          \A i \in 1..progress.file_index : Framed(files'[i])
      ]_vars
\* this step rotates to a new output file and the run goes on
Rotates ==
    /\ pc = "row"
    /\ pc' \in {"row", "fetch"}
    /\ progress'.file_index = progress.file_index + 1

\* C13 (Checkpoint on rotation): every rotation comes with a save_progress
\* call that carries the new file_index, so that the persisted checkpoint
\* never names a file already closed with its trailer.
C13_CheckpointOnRotation ==
    [][Rotates =>
          /\ Len(saved') = Len(saved) + 1
          /\ Last(saved').args.file_index = progress'.file_index
      ]_vars
\* this step is a return from the except clause after writing a record or
\* rotating a file failed
WriteFails == pc = "row" /\ pc' = "returned" /\ cause' = "exception"

\* C14 (Known-good checkpoint on mid-batch failure): when writing a record or
\* rotating fails at any row position, export_table returns failure and the
\* checkpoint handed to save_progress counts the rows written, carries the
\* primary key of the last of them, and names the file that row went to with
\* its size.
C14_KnownGoodCheckpoint ==
    [][WriteFails =>
          /\ result' = "false"
          /\ progress'.processed_rows = loaded.processed_rows + Len(wrote)
          /\ (pk_in_columns /\ wrote # <<>>) =>
                progress'.last_primary_key = Last(wrote)
          /\ progress'.file_index = progress.file_index
          /\ progress'.current_file_size = current_file_size
      ]_vars

\* this step persists a new readable checkpoint
Persists == ckpt' # ckpt /\ ckpt'.kind = "valid"

\* C15 (Persisted row count matches the files): whenever a checkpoint is
\* persisted, in the first run in an empty directory or in a resumed run after
\* any interruption, its processed_rows is the number of records in the output
\* files 1..file_index and its current_file_size is the record bytes of file
\* file_index.
C15_CountMatchesFiles ==
    [][(Persists /\ (runs = 1 \/ resume)) =>
          LET p == ckpt'.data
          IN /\ p.processed_rows = Len(RecordsUpTo(files', p.file_index))
             /\ p.current_file_size = Bytes(files'[p.file_index])
      ]_vars

\* C16 (Degraded resume when the primary key is excluded): a run that excludes
\* the primary-key column never takes last_primary_key from a row, and every
\* checkpoint it persists has last_primary_key absent, wherever the primary
\* key stands in the column order and whatever checkpoint was loaded.
C16_ExcludedPrimaryKey ==
    [][(pc # "idle" /\ exclude_pk) =>
          /\ pc = "row" => last_primary_key_value' \in {None, last_primary_key_value}
          /\ Persists => ckpt'.data.last_primary_key = None
      ]_vars

\* C17 (Guard on rotation): the disk-space guard is consulted at every
\* rotation before the new file is opened: a step that closes a file and
\* opens the next is taken only where check_disk_space has just been called.
C17_GuardOnRotation ==
    [][(pc = "row" /\ files'[progress.file_index + 1] # files[progress.file_index + 1])
       => CheckDue(progress)
      ]_vars
\* this step is the start of a resumed run on a table without primary key
\* that passes the disk check and get_table_info
ResumesWithoutKey ==
    /\ pc = "idle"
    /\ pc' # "idle"
    /\ resume'
    /\ ~primary_key
    /\ cause' # "init"

\* C18 (Resume without a primary key): a run with resume=True on a table
\* without primary key is not aborted for that; whatever checkpoint it loads,
\* its query yields every row of the table from the first, and when it
\* completes it has written all of them (rows of earlier runs again).
C18_ResumeWithoutPrimaryKey ==
    [][/\ ResumesWithoutKey =>
             /\ pc' = "open"
             /\ ~HasWhere(progress')
             /\ ~HasOrderBy
             /\ cursor' = Range(1, NumRows)
       /\ (Returns("true") /\ resume /\ ~primary_key) =>
             wrote = Range(1, NumRows)
      ]_vars

\* C18 witness: a resumed run without primary key has completed, having
\* written every row on top of the rows counted by the checkpoint it loaded
C18_Witness ==
    /\ Returned("true")
    /\ resume
    /\ ~primary_key
    /\ progress.processed_rows > NumRows
    /\ Count(RecordsUpTo(files, MaxFiles), 1) >= 2
\* C19 (Resume with nothing to resume equals a fresh run): a run with
\* resume=True that finds no checkpoint file leaves what a fresh run leaves:
\* files 1..file_index hold each table row once, and file 1 has one header
\* before its records and one trailer after them.
C19_ResumeEqualsFresh ==
    [][(Returns("true") /\ resume /\ loadedKind = "absent") =>
          /\ RecordsUpTo(files', progress.file_index) = Range(1, NumRows)
          /\ Framed(files'[1])
      ]_vars

\* the run is between its start and its end
Running == pc \in {"open", "fetch", "row", "final"}

\* the program with the interpreter always taking its next step
SpecLive == Init /\ [][Next]_vars /\ WF_vars(Next)

\* C20 (Termination in a terminal state): every run ends, and where
\* export_table is left it is by returning True (Completed, after the final
\* trailer) or False (Failed), never otherwise.
C20_Termination ==
    /\ [](pc = "returned" => result \in {"true", "false"})
    /\ (Running ~> ~Running)
====
